---- MODULE Spec2Model ----
(***************************************************************************)
(* A model of the GopherLua validation module (src/validation.go).         *)
(*                                                                         *)
(* Script values are tagged records.  A Go string is a sequence of bytes;  *)
(* a byte is written as a one-token string ("a", "@", or the hex name of   *)
(* a byte such as "C3" or "60", the backtick).  A Lua number is a float64; the model   *)
(* keeps the multiples of 1/2 between -MaxHalf/2 and MaxHalf/2, a number   *)
(* being stored as its count h of halves.  A table is a reference into the *)
(* heap of the LState.                                                     *)
(***************************************************************************)
EXTENDS Integers, Sequences, FiniteSets, TLC

VARIABLES heap, stack, loaded, mod, nloads, last, first, ncalls, ctx, counts,
          exports

vars ==
    <<heap, stack, loaded, mod, nloads, last, first, ncalls, ctx, counts, exports>>

(* ----------------------------- bounds ---------------------------------- *)

\* numbers range over h/2 for h in -MaxHalf..MaxHalf
MaxHalf == 6

\* how many times the host calls Loader directly
MaxLoads == 2

\* the calls of a script are counted up to MaxCalls
MaxCalls == 3

(* --------------------------- script values ----------------------------- *)

LNil == [t |-> "nil"]

LBool(b) == [t |-> "boolean", b |-> b]

LNumber(h) == [t |-> "number", h |-> h]

LString(s) == [t |-> "string", s |-> s]

LTableRef(r) == [t |-> "table", ref |-> r]

LFunction(name) == [t |-> "function", name |-> name]

Numbers == {LNumber(h) : h \in (0 - MaxHalf)..MaxHalf}

\* "", "a", "e-acute" (two bytes, one rune), "1", "[", "a@b", "h:/", "[a]"
StringPool ==
    { <<>>, <<"a">>, <<"C3", "A9">>, <<"1">>, <<"[">>,
      <<"a", "@", "b">>, <<"h", ":", "/">>, <<"[", "a", "]">> }

Strings == {LString(s) : s \in StringPool}

\* the tables the script has built before it calls the module
EmptyTable == [array |-> <<>>, strdict |-> {}, dict |-> {}]

UserTables ==
    <<  EmptyTable,
        [array |-> <<LNil>>, strdict |-> {}, dict |-> {}],
        [array |-> <<>>, strdict |-> {<<"k", LBool(FALSE)>>}, dict |-> {}],
        [array |-> <<LNumber(2), LNil>>, strdict |-> {},
         dict |-> {<<LBool(TRUE), LNumber(0)>>}] >>

UserRefs == 1..Len(UserTables)

Values ==
    {LNil, LBool(TRUE), LBool(FALSE), LFunction("print")}
        \cup Numbers \cup Strings \cup {LTableRef(r) : r \in UserRefs}

(* ------------------------- the LState API ------------------------------ *)
\* An LState frame: the value stack of the running call and the table heap.

GetTop(L) == Len(L.stack)

Get(L, n) == IF n >= 1 /\ n <= Len(L.stack) THEN L.stack[n] ELSE LNil

Push(L, v) == [L EXCEPT !.stack = Append(@, v)]

\* a Go function returning n: the call's results are the top n stack values
Return(L, n) == [abort |-> FALSE, msg |-> "", n |-> n, L |-> L]

\* L.ArgError / L.TypeError / L.RaiseError: the call is aborted by a panic
Raise(L, msg) == [abort |-> TRUE, msg |-> msg, n |-> 0, L |-> L]

Checked(v) == [ok |-> TRUE, v |-> v, msg |-> ""]

Failed(msg) == [ok |-> FALSE, v |-> LNil, msg |-> msg]

(* ------------------- conversions of the host library ------------------- *)

DigitToken == <<"0", "1", "2", "3", "4", "5", "6", "7", "8", "9">>

IsDigit(b) == \E d \in 1..10 : DigitToken[d] = b

DigitValue(b) == (CHOOSE d \in 1..10 : DigitToken[d] = b) - 1

RECURSIVE Decimal(_)
\* fmt.Sprint of a non-negative int64
Decimal(n) ==
    IF n < 10 THEN <<DigitToken[n + 1]>>
    ELSE Append(Decimal(n \div 10), DigitToken[(n % 10) + 1])

\* LNumber.String(): an integral number prints as an integer, any other
\* as the shortest float text; h counts halves
NumberToString(h) ==
    LET a == IF h < 0 THEN 0 - h ELSE h
        sign == IF h < 0 THEN <<"-">> ELSE <<>>
    IN  IF a % 2 = 0 THEN sign \o Decimal(a \div 2)
        ELSE sign \o Decimal(a \div 2) \o <<".", "5">>

\* Go's int(float64): truncation toward zero
GoInt(h) == IF h >= 0 THEN h \div 2 ELSE 0 - ((0 - h) \div 2)

RECURSIVE DigitsValue(_)
DigitsValue(ds) ==
    IF ds = <<>> THEN 0
    ELSE 10 * DigitsValue(SubSeq(ds, 1, Len(ds) - 1)) + DigitValue(ds[Len(ds)])

AllDigits(ds) == \A i \in 1..Len(ds) : IsDigit(ds[i])

\* parseNumber: a decimal numeral, optionally signed, optionally with a
\* fraction.  The numerals the modelled strings can spell have the
\* fraction "", "0" or "5"; the result is in halves.
ParseNumber(s) ==
    LET neg == Len(s) > 0 /\ s[1] = "-"
        body == IF neg THEN Tail(s) ELSE s
        dots == {i \in 1..Len(body) : body[i] = "."}
        dot == IF dots = {} THEN Len(body) + 1
               ELSE CHOOSE i \in dots : \A j \in dots : i <= j
        ip == SubSeq(body, 1, dot - 1)
        fp == SubSeq(body, dot + 1, Len(body))
        ok == /\ ip # <<>>
              /\ AllDigits(ip)
              /\ fp \in {<<>>, <<"0">>, <<"5">>}
        mag == 2 * DigitsValue(ip) + (IF fp = <<"5">> THEN 1 ELSE 0)
    IN  IF ok THEN [ok |-> TRUE, h |-> IF neg THEN 0 - mag ELSE mag]
        ELSE [ok |-> FALSE, h |-> 0]

\* UTF-8: a lead byte of a two-byte rune and its continuation byte
LeadBytes == {"C3"}

ContBytes == {"A9"}

RECURSIVE DecodeRunes(_)
\* the runes of a well-formed UTF-8 byte string, each as its bytes
DecodeRunes(s) ==
    IF s = <<>> THEN <<>>
    ELSE IF s[1] \in LeadBytes /\ Len(s) >= 2 /\ s[2] \in ContBytes
         THEN <<SubSeq(s, 1, 2)>> \o DecodeRunes(SubSeq(s, 3, Len(s)))
         ELSE <<SubSeq(s, 1, 1)>> \o DecodeRunes(Tail(s))

\* net/mail.ParseAddress, restricted to addr-spec: an atom, an at sign, an atom

NotAText == {"@", "[", "]", ":", ".", "60", " "}

IsAtom(s) == s # <<>> /\ \A i \in 1..Len(s) : s[i] \notin NotAText

ParseAddressOK(s) ==
    \E i \in 1..Len(s) :
        /\ s[i] = "@"
        /\ IsAtom(SubSeq(s, 1, i - 1))
        /\ IsAtom(SubSeq(s, i + 1, Len(s)))

\* net/url.ParseRequestURI: getScheme, then the request-URI rule

Letters == {"a", "b", "h"}

SchemeTail == {"-", "."} \cup {DigitToken[d] : d \in 1..10}

\* getScheme: -1 is "missing protocol scheme", 0 is "no scheme",
\* i > 0 is a scheme ending before the colon at i
GetScheme(s) ==
    LET stops == {i \in 1..Len(s) : s[i] \notin Letters}
        i == IF stops = {} THEN 0
             ELSE CHOOSE k \in stops : \A j \in stops : k <= j
    IN  IF i = 0 THEN 0
        ELSE IF s[i] = ":" THEN (IF i = 1 THEN 0 - 1 ELSE i)
        ELSE IF s[i] \in SchemeTail /\ i > 1
             THEN LET rest == {k \in (i + 1)..Len(s) :
                                 s[k] \notin Letters \cup SchemeTail}
                      k == IF rest = {} THEN 0
                           ELSE CHOOSE a \in rest : \A b \in rest : a <= b
                  IN  IF k # 0 /\ s[k] = ":" THEN k ELSE 0
        ELSE 0

ParseRequestURIOK(s) ==
    LET c == GetScheme(s)
    IN  /\ s # <<>>
        /\ c # 0 - 1
        /\ \/ c > 0
           \/ s[1] = "/"

\* regexp.Compile and Regexp.MatchString, for literals, the dot and classes

ErrMissingBracket == <<"e", "r", "r", "o", "r", " ", "p", "a", "r", "s", "i", "n", "g", " ", "r", "e", "g", "e", "x", "p", ":", " ", "m", "i", "s", "s", "i", "n", "g", " ", "c", "l", "o", "s", "i", "n", "g", " ", "]", ":", " ", "60">>

Item(k, r, set) == [k |-> k, r |-> r, set |-> set]

\* index of the "]" closing the class opened at i, or 0; a "]" that is the
\* first character of the class is a literal
ClassEnd(rs, i) ==
    LET ends == {j \in (i + 2)..Len(rs) : rs[j] = <<"]">>}
    IN  IF ends = {} THEN 0 ELSE CHOOSE j \in ends : \A k \in ends : j <= k

RECURSIVE Flat(_)
\* the bytes of a sequence of runes
Flat(q) == IF q = <<>> THEN <<>> ELSE q[1] \o Flat(Tail(q))

RECURSIVE ParseRegexp(_, _, _)
\* rs: the runes of the whole pattern, i: the next one, acc: the items so far
ParseRegexp(rs, i, acc) ==
    IF i > Len(rs) THEN [ok |-> TRUE, prog |-> acc, err |-> <<>>]
    ELSE IF rs[i] = <<"[">>
         THEN LET e == ClassEnd(rs, i)
              IN  IF e = 0
                  THEN LET rest == [j \in 1..(Len(rs) - i + 1) |-> rs[i + j - 1]]
                       IN  [ok |-> FALSE, prog |-> <<>>,
                            err |-> ErrMissingBracket \o Flat(rest) \o <<"60">>]
                  ELSE ParseRegexp(rs, e + 1,
                         Append(acc, Item("class", <<>>,
                                     {rs[j] : j \in (i + 1)..(e - 1)})))
    ELSE IF rs[i] = <<".">>
         THEN ParseRegexp(rs, i + 1, Append(acc, Item("any", <<>>, {})))
    ELSE ParseRegexp(rs, i + 1, Append(acc, Item("lit", rs[i], {})))

regexpCompile(pattern) == ParseRegexp(DecodeRunes(pattern), 1, <<>>)

ItemMatches(it, r) ==
    CASE it.k = "lit" -> r = it.r
      [] it.k = "any" -> TRUE
      [] it.k = "class" -> r \in it.set

\* unanchored search: the items match at some position of the string
MatchString(prog, str) ==
    LET rs == DecodeRunes(str)
    IN  \E p \in 0..Len(rs) :
            /\ p + Len(prog) <= Len(rs)
            /\ \A j \in 1..Len(prog) : ItemMatches(prog[j], rs[p + j])

(* ----------------------- argument checkers ----------------------------- *)

\* L.CheckAny(n): an argument must be present, of any type
CheckAny(L, n) ==
    IF n > GetTop(L) THEN Failed("value expected") ELSE Checked(Get(L, n))

\* a variant of CheckString without the number conversion
CheckStringStrict(L, n) ==
    LET v == Get(L, n)
    IN  IF v.t = "string" THEN Checked(v.s) ELSE Failed("string expected")

\* L.CheckString(n): a string, or a number converted to its text
CheckString(L, n) ==
    LET v == Get(L, n)
    IN  IF v.t = "string" THEN Checked(v.s)
        ELSE IF v.t = "number" THEN Checked(NumberToString(v.h))
        ELSE Failed("string expected")

\* L.CheckInt(n): a number, truncated to an int
CheckInt(L, n) ==
    LET v == Get(L, n)
    IN  IF v.t = "number" THEN Checked(GoInt(v.h))
        ELSE Failed("number expected")

\* L.CheckNumber(n): a number, or a string that parses as one (in halves)
CheckNumber(L, n) ==
    LET v == Get(L, n)
    IN  IF v.t = "number" THEN Checked(v.h)
        ELSE IF v.t = "string" /\ ParseNumber(v.s).ok
             THEN Checked(ParseNumber(v.s).h)
        ELSE Failed("number expected")

(* ----------------------------- tables ---------------------------------- *)

\* a variant of ForEachPairs that walks the array part only
ForEachArrayOnly(tbl) ==
    {<<LNumber(2 * i), tbl.array[i]>> :
        i \in {j \in 1..Len(tbl.array) : tbl.array[j] # LNil}}

\* the (key, value) pairs LTable.ForEach hands to its callback: the array
\* part, the string-keyed part and the rest, nil values skipped
ForEachPairs(tbl) ==
    {<<LNumber(2 * i), tbl.array[i]>> :
        i \in {j \in 1..Len(tbl.array) : tbl.array[j] # LNil}}
      \cup {<<LString(<<p[1]>>), p[2]>> : p \in {q \in tbl.strdict : q[2] # LNil}}
      \cup {p \in tbl.dict : p[2] # LNil}

(* ------------------------ the exported functions ----------------------- *)

\* a variant of isEmpty that removes the entries it counts
isEmptyDraining(L) ==
    LET value == CheckAny(L, 1)
    IN  IF ~value.ok THEN Raise(L, value.msg)
        ELSE IF value.v = LNil THEN Return(Push(L, LBool(TRUE)), 1)
        ELSE IF value.v.t = "string"
             THEN Return(Push(L, LBool(value.v.s = <<>>)), 1)
        ELSE IF value.v.t = "table"
             THEN LET count == Cardinality(ForEachPairs(L.heap[value.v.ref]))
                      L1 == [L EXCEPT !.heap[value.v.ref] = EmptyTable]
                  IN  Return(Push(L1, LBool(count = 0)), 1)
        ELSE Return(Push(L, LBool(FALSE)), 1)

isEmpty(L) ==
    LET value == CheckAny(L, 1)
    IN  IF ~value.ok THEN Raise(L, value.msg)
        ELSE IF value.v = LNil THEN Return(Push(L, LBool(TRUE)), 1)
        ELSE IF value.v.t = "string"
             THEN Return(Push(L, LBool(value.v.s = <<>>)), 1)
        ELSE IF value.v.t = "table"
             THEN LET count == Cardinality(ForEachPairs(L.heap[value.v.ref]))
                  IN  Return(Push(L, LBool(count = 0)), 1)
        ELSE Return(Push(L, LBool(FALSE)), 1)

isString(L) ==
    LET value == CheckAny(L, 1)
    IN  IF ~value.ok THEN Raise(L, value.msg)
        ELSE Return(Push(L, LBool(value.v.t = "string")), 1)

\* a variant of isNumber that also takes strings spelling a number
isNumberCoercing(L) ==
    LET value == CheckAny(L, 1)
    IN  IF ~value.ok THEN Raise(L, value.msg)
        ELSE Return(Push(L, LBool(CheckNumber(L, 1).ok)), 1)

isNumber(L) ==
    LET value == CheckAny(L, 1)
    IN  IF ~value.ok THEN Raise(L, value.msg)
        ELSE Return(Push(L, LBool(value.v.t = "number")), 1)

isTable(L) ==
    LET value == CheckAny(L, 1)
    IN  IF ~value.ok THEN Raise(L, value.msg)
        ELSE Return(Push(L, LBool(value.v.t = "table")), 1)

isBoolean(L) ==
    LET value == CheckAny(L, 1)
    IN  IF ~value.ok THEN Raise(L, value.msg)
        ELSE Return(Push(L, LBool(value.v.t = "boolean")), 1)

isNil(L) ==
    LET value == CheckAny(L, 1)
    IN  IF ~value.ok THEN Raise(L, value.msg)
        ELSE Return(Push(L, LBool(value.v = LNil)), 1)

validateEmail(L) ==
    LET email == CheckString(L, 1)
    IN  IF ~email.ok THEN Raise(L, email.msg)
        ELSE Return(Push(L, LBool(ParseAddressOK(email.v))), 1)

validateURL(L) ==
    LET urlStr == CheckString(L, 1)
    IN  IF ~urlStr.ok THEN Raise(L, urlStr.msg)
        ELSE Return(Push(L, LBool(ParseRequestURIOK(urlStr.v))), 1)

\* a variant of validateRegex that returns nil, not false, with the error
validateRegexNilOnError(L) ==
    LET str == CheckString(L, 1)
        pattern == CheckString(L, 2)
    IN  IF ~str.ok THEN Raise(L, str.msg)
        ELSE IF ~pattern.ok THEN Raise(L, pattern.msg)
        ELSE LET re == regexpCompile(pattern.v)
             IN  IF ~re.ok
                 THEN Return(Push(Push(L, LNil), LString(re.err)), 2)
                 ELSE Return(Push(L, LBool(MatchString(re.prog, str.v))), 1)

validateRegex(L) ==
    LET str == CheckString(L, 1)
        pattern == CheckString(L, 2)
    IN  IF ~str.ok THEN Raise(L, str.msg)
        ELSE IF ~pattern.ok THEN Raise(L, pattern.msg)
        ELSE LET re == regexpCompile(pattern.v)
             IN  IF ~re.ok
                 THEN Return(Push(Push(L, LBool(FALSE)), LString(re.err)), 2)
                 ELSE Return(Push(L, LBool(MatchString(re.prog, str.v))), 1)

minLength(L) ==
    LET str == CheckString(L, 1)
        min == CheckInt(L, 2)
    IN  IF ~str.ok THEN Raise(L, str.msg)
        ELSE IF ~min.ok THEN Raise(L, min.msg)
        ELSE Return(Push(L, LBool(Len(str.v) >= min.v)), 1)

maxLength(L) ==
    LET str == CheckString(L, 1)
        max == CheckInt(L, 2)
    IN  IF ~str.ok THEN Raise(L, str.msg)
        ELSE IF ~max.ok THEN Raise(L, max.msg)
        ELSE Return(Push(L, LBool(Len(str.v) <= max.v)), 1)

\* a variant of inRange that excludes the upper end
inRangeHalfOpen(L) ==
    LET num == CheckNumber(L, 1)
        min == CheckNumber(L, 2)
        max == CheckNumber(L, 3)
    IN  IF ~num.ok THEN Raise(L, num.msg)
        ELSE IF ~min.ok THEN Raise(L, min.msg)
        ELSE IF ~max.ok THEN Raise(L, max.msg)
        ELSE Return(Push(L, LBool(num.v >= min.v /\ num.v < max.v)), 1)

inRange(L) ==
    LET num == CheckNumber(L, 1)
        min == CheckNumber(L, 2)
        max == CheckNumber(L, 3)
    IN  IF ~num.ok THEN Raise(L, num.msg)
        ELSE IF ~min.ok THEN Raise(L, min.msg)
        ELSE IF ~max.ok THEN Raise(L, max.msg)
        ELSE Return(Push(L, LBool(num.v >= min.v /\ num.v <= max.v)), 1)

\* the Go function a function value wraps, applied to the frame L
Invoke(name, L) ==
    CASE name = "isEmpty" -> isEmpty(L)
      [] name = "isString" -> isString(L)
      [] name = "isNumber" -> isNumber(L)
      [] name = "isTable" -> isTable(L)
      [] name = "isBoolean" -> isBoolean(L)
      [] name = "isNil" -> isNil(L)
      [] name = "validateEmail" -> validateEmail(L)
      [] name = "validateURL" -> validateURL(L)
      [] name = "validateRegex" -> validateRegex(L)
      [] name = "minLength" -> minLength(L)
      [] name = "maxLength" -> maxLength(L)
      [] name = "inRange" -> inRange(L)

(* --------------------------- registration ------------------------------ *)

\* var exports = map[string]lua.LGFunction{...}
ExportsInit ==
    [ is_empty |-> "isEmpty", is_string |-> "isString",
      is_number |-> "isNumber", is_table |-> "isTable",
      is_boolean |-> "isBoolean", is_nil |-> "isNil",
      validate_email |-> "validateEmail", validate_url |-> "validateURL",
      validate_regex |-> "validateRegex", min_length |-> "minLength",
      max_length |-> "maxLength", in_range |-> "inRange" ]

\* a variant of NewTable that hands out the newest existing table again
NewTableReused(L) == L

\* L.NewTable(): a fresh empty table at the next free reference
NewTable(L) == [L EXCEPT !.heap = Append(@, EmptyTable)]

\* L.SetFuncs(tb, funcs): tb[name] = NewFunction(fn) for every entry
SetFuncs(L, r, funcs) ==
    [L EXCEPT !.heap[r].strdict =
        {p \in @ : p[1] \notin DOMAIN funcs}
            \cup {<<name, LFunction(funcs[name])>> : name \in DOMAIN funcs}]

Loader(L) ==
    LET L1 == NewTable(L)
        r == Len(L1.heap)
        L2 == SetFuncs(L1, r, exports)
    IN  Return(Push(L2, LTableRef(r)), 1)

\* the values a call that returned n hands back: the top n of its stack
Results(out) ==
    SubSeq(out.L.stack, Len(out.L.stack) - out.n + 1, Len(out.L.stack))

\* what the caller finds in result slot i: Lua pads with nil
Slot(ret, i) == IF i <= Len(ret) THEN ret[i] ELSE LNil

(* ------------------------------ the host ------------------------------- *)

NoCall == [fn |-> "", args |-> <<>>, abort |-> FALSE, msg |-> "", ret |-> <<>>]

Arity(fn) ==
    CASE fn \in {"validate_regex", "min_length", "max_length"} -> 2
      [] fn = "in_range" -> 3
      [] OTHER -> 1

ArgLists(fn, V) == UNION {[1..k -> V] : k \in 0..Arity(fn)}

\* the table field t[name], nil when absent (RawGetString)
Field(tbl, name) ==
    LET hit == {p \in tbl.strdict : p[1] = name}
    IN  IF hit = {} THEN LNil ELSE (CHOOSE p \in hit : TRUE)[2]

\* the record of a call: what was called, with what, and what came back
CallRecord(fn, args, out) ==
    [fn |-> fn, args |-> args, abort |-> out.abort, msg |-> out.msg,
     ret |-> IF out.abort THEN <<>> ELSE Results(out)]

\* independent host execution contexts, each an LState of its own
Contexts == {"A", "B"}

\* a context that has not started
NewContext ==
    [pc |-> "new", heap |-> UserTables, mod |-> LNil, fn |-> "", args |-> <<>>,
     todo |-> {}, rec |-> NoCall]

NoContexts == [c \in Contexts |-> NewContext]

NoCounts == [c \in Contexts |-> 0]

\* a host state in which nothing has been loaded yet
Fresh ==
    /\ exports = ExportsInit
    /\ heap = UserTables
    /\ stack = <<>>
    /\ loaded = LNil
    /\ mod = LNil
    /\ nloads = 0
    /\ last = NoCall
    /\ first = NoCall
    /\ ncalls = 0
    /\ ctx = NoContexts
    /\ counts = NoCounts

\* L.PreloadModule("validation", Loader); local validation = require("validation")
\* the first require runs Loader in a new frame and caches what it returns
RequireOutcome(h, ld) ==
    IF ld = LNil
    THEN LET out == Loader([stack |-> <<LString(<<"validation">>)>>, heap |-> h])
         IN  [heap |-> out.L.heap, loaded |-> Slot(Results(out), 1)]
    ELSE [heap |-> h, loaded |-> ld]

\* the state every test starts from: a new LState whose script has required
\* the module
Init ==
    /\ exports = ExportsInit
    /\ LET r == RequireOutcome(UserTables, LNil)
       IN  /\ heap = r.heap
           /\ loaded = r.loaded
           /\ mod = r.loaded
    /\ stack = <<>>
    /\ nloads = 0
    /\ last = NoCall
    /\ first = NoCall
    /\ ncalls = 0
    /\ ctx = NoContexts
    /\ counts = NoCounts

\* the host calls Loader on its state directly
LoaderCall ==
    /\ nloads < MaxLoads
    /\ LET out == Loader([stack |-> stack, heap |-> heap])
       IN  /\ heap' = out.L.heap
           /\ stack' = out.L.stack
    /\ nloads' = nloads + 1
    /\ UNCHANGED <<loaded, mod, last, first, ncalls, ctx, counts, exports>>

Require ==
    /\ LET r == RequireOutcome(heap, loaded)
       IN  /\ heap' = r.heap
           /\ loaded' = r.loaded
           /\ mod' = r.loaded
    /\ UNCHANGED <<stack, nloads, last, first, ncalls, ctx, counts, exports>>

\* the script calls validation.fn(args...): a frame holding the arguments
\* is set up, the Go function runs in it, the caller receives the results
CallStep(fn, args) ==
    LET f == Field(heap[mod.ref], fn)
        out == Invoke(f.name, [stack |-> args, heap |-> heap])
    IN  /\ f # LNil
        /\ last' = CallRecord(fn, args, out)
        /\ heap' = out.L.heap
        /\ UNCHANGED <<stack, loaded, mod, nloads, ctx, counts, exports>>

Names == DOMAIN ExportsInit

\* a call with arguments drawn from V, once the module is loaded and the
\* results of the previous call have been consumed
Call(V) ==
    /\ mod # LNil
    /\ last = NoCall
    /\ \E fn \in Names : \E args \in ArgLists(fn, V) : CallStep(fn, args)
    /\ UNCHANGED <<first, ncalls>>

\* the script moves on: the results of the call are dropped
Discard ==
    /\ last # NoCall
    /\ last' = NoCall
    /\ UNCHANGED <<heap, stack, loaded, mod, nloads, first, ncalls, ctx, counts, exports>>

Next ==
    \/ Discard
    \/ Call(Values)

Spec == Init /\ [][Next]_vars

(* ------------------- the host loading the module ----------------------- *)

LoadValues == {LNil, LString(<<"a">>), LNumber(2), LTableRef(1)}

NextLoad ==
    \/ LoaderCall
    \/ Require
    \/ Discard
    \/ Call(LoadValues)

SpecLoad == Fresh /\ [][NextLoad]_vars

(* ------------------- a script repeating its calls ---------------------- *)

HistValues ==
    {LNil, LString(<<>>), LString(<<"[">>), LBool(FALSE), LNumber(1),
     LTableRef(1), LTableRef(3)}

\* as Call, and the first call the script ever made is remembered
CallH(V) ==
    /\ mod # LNil
    /\ last = NoCall
    /\ \E fn \in Names : \E args \in ArgLists(fn, V) : CallStep(fn, args)
    /\ first' = IF first = NoCall THEN last' ELSE first
    /\ ncalls' = IF ncalls < MaxCalls THEN ncalls + 1 ELSE ncalls

NextHist ==
    \/ Discard
    \/ CallH(HistValues)

SpecHist == Init /\ [][NextHist]_vars

(* --------------- calls from independent contexts ----------------------- *)
\* Each context is an LState of its own, with its own heap; the steps of the
\* contexts interleave.  A call runs in one step except isEmpty on a table,
\* whose enumeration visits one entry per step.

ConcValues ==
    {LNil, LString(<<"a">>), LNumber(2), LTableRef(1), LTableRef(4)}

\* a variant of CountSlot that keeps one count for the whole package
CountSlotGlobal(c) == "A"

\* where the variable count of the isEmpty invocation running in c lives:
\* a local of that invocation
CountSlot(c) == c

InitConc ==
    /\ exports = ExportsInit
    /\ ctx = NoContexts
    /\ counts = NoCounts
    /\ heap = UserTables
    /\ stack = <<>>
    /\ loaded = LNil
    /\ mod = LNil
    /\ nloads = 0
    /\ last = NoCall
    /\ first = NoCall
    /\ ncalls = 0

Rest == <<heap, stack, loaded, mod, nloads, last, first, ncalls, exports>>

\* the context's script requires the module: Loader reads exports
Load(c) ==
    /\ ctx[c].pc = "new"
    /\ LET r == RequireOutcome(ctx[c].heap, LNil)
       IN  ctx' = [ctx EXCEPT ![c].pc = "idle", ![c].heap = r.heap,
                              ![c].mod = r.loaded]
    /\ UNCHANGED <<counts, Rest>>

\* the context's script calls validation.fn(args...)
Begin(c) ==
    /\ ctx[c].pc = "idle"
    /\ \E fn \in Names : \E args \in ArgLists(fn, ConcValues) :
        LET L == [stack |-> args, heap |-> ctx[c].heap]
            f == Field(ctx[c].heap[ctx[c].mod.ref], fn)
        IN  /\ f # LNil
            /\ IF f.name = "isEmpty" /\ CheckAny(L, 1).ok
                    /\ CheckAny(L, 1).v.t = "table"
               THEN /\ ctx' = [ctx EXCEPT
                          ![c].pc = "foreach", ![c].fn = fn, ![c].args = args,
                          ![c].todo = ForEachPairs(L.heap[Get(L, 1).ref])]
                    /\ counts' = [counts EXCEPT ![CountSlot(c)] = 0]
               ELSE /\ ctx' = [ctx EXCEPT
                          ![c].pc = "done", ![c].fn = fn, ![c].args = args,
                          ![c].rec = CallRecord(fn, args, Invoke(f.name, L))]
                    /\ counts' = counts
    /\ UNCHANGED Rest

\* tbl.ForEach hands one more entry to the callback: count++
Visit(c) ==
    /\ ctx[c].pc = "foreach"
    /\ \E p \in ctx[c].todo :
        ctx' = [ctx EXCEPT ![c].todo = @ \ {p}]
    /\ counts' = [counts EXCEPT ![CountSlot(c)] = @ + 1]
    /\ UNCHANGED Rest

\* the enumeration is over: L.Push(lua.LBool(count == 0)); return 1
Finish(c) ==
    /\ ctx[c].pc = "foreach"
    /\ ctx[c].todo = {}
    /\ LET L == Push([stack |-> ctx[c].args, heap |-> ctx[c].heap],
                     LBool(counts[CountSlot(c)] = 0))
       IN  ctx' = [ctx EXCEPT
               ![c].pc = "done",
               ![c].rec = CallRecord(ctx[c].fn, ctx[c].args, Return(L, 1))]
    /\ UNCHANGED <<counts, Rest>>

\* the context's script moves on
Consume(c) ==
    /\ ctx[c].pc = "done"
    /\ ctx' = [ctx EXCEPT ![c].pc = "idle", ![c].fn = "", ![c].args = <<>>,
                          ![c].rec = NoCall]
    /\ UNCHANGED <<counts, Rest>>

NextConc ==
    \E c \in Contexts :
        \/ Load(c)
        \/ Begin(c)
        \/ Visit(c)
        \/ Finish(c)
        \/ Consume(c)

SpecConc == InitConc /\ [][NextConc]_vars

(* ====================== properties of single calls ===================== *)

Str(s) == LString(s)

Num(h) == LNumber(h)

Returned(b) == ~last.abort /\ last.ret = <<LBool(b)>>

NamedTag ==
    [ is_string |-> "string", is_number |-> "number", is_table |-> "table",
      is_boolean |-> "boolean", is_nil |-> "nil" ]

\* C1: is_string, is_number, is_table, is_boolean and is_nil, given a value
\* v, return true exactly when the type tag of v is the tag the function
\* names; nothing is coerced.
C1_TypeTagExact ==
    (last.fn \in DOMAIN NamedTag /\ Len(last.args) >= 1)
        => Returned(last.args[1].t = NamedTag[last.fn])

\* is_number of the string "1" has answered false
C1_Witness ==
    /\ last.fn = "is_number"
    /\ last.args = <<Str(<<"1">>)>>
    /\ Returned(FALSE)

\* C2: the type-classification functions return a boolean for every input,
\* an absent argument included, and never raise a script error.
C2_NeverRaises ==
    last.fn \in DOMAIN NamedTag
        => /\ ~last.abort
           /\ Len(last.ret) = 1
           /\ last.ret[1].t = "boolean"

TypedFns ==
    {"validate_email", "validate_url", "validate_regex", "min_length",
     "max_length", "in_range"}

\* the declared type of parameter i of fn
Declared(fn, i) ==
    IF fn = "in_range" \/ (fn \in {"min_length", "max_length"} /\ i = 2)
    THEN "number" ELSE "string"

\* C3 as stated: a typed argument that is missing or not of the declared
\* type aborts the call.
C3_WrongTypeAborts ==
    (/\ last.fn \in TypedFns
     /\ \E i \in 1..Arity(last.fn) :
            Slot(last.args, i).t # Declared(last.fn, i))
        => last.abort

\* the string spells one of the numbers, as the number prints
SpellsNumber(s) == \E h \in (0 - MaxHalf)..MaxHalf : NumberToString(h) = s

\* what the argument checkers let through for parameter i of fn
Acceptable(fn, i, v) ==
    IF Declared(fn, i) = "string" THEN v.t \in {"string", "number"}
    ELSE IF fn = "in_range"
         THEN v.t = "number" \/ (v.t = "string" /\ SpellsNumber(v.s))
    ELSE v.t = "number"

\* the arguments with every number in a string position replaced by its text
AsText(fn, args) ==
    [i \in 1..Len(args) |->
        IF Declared(fn, i) = "string" /\ args[i].t = "number"
        THEN Str(NumberToString(args[i].h)) ELSE args[i]]

\* C3 amended: the call aborts exactly when a typed argument is missing or
\* is neither of the declared type nor convertible to it (a number for a
\* string parameter, a numeric string for a parameter of in_range); a number
\* in a string position is validated as its decimal text.
C3_ConvertibleOrAbort ==
    last.fn \in TypedFns
        => /\ last.abort <=>
                \E i \in 1..Arity(last.fn) :
                    ~Acceptable(last.fn, i, Slot(last.args, i))
           /\ ~last.abort =>
                last.ret =
                    Results(Invoke(ExportsInit[last.fn],
                        [stack |-> AsText(last.fn, last.args), heap |-> heap]))

\* validate_email of the number 1 has answered false instead of aborting
C3_Witness ==
    /\ last.fn = "validate_email"
    /\ last.args = <<Num(2)>>
    /\ Returned(FALSE)

NoEntries(tbl) ==
    /\ \A i \in 1..Len(tbl.array) : tbl.array[i] = LNil
    /\ \A p \in tbl.strdict \cup tbl.dict : p[2] = LNil

\* C5: is_empty(v) is true exactly when v is nil, the empty string or a
\* table without entries, and false for every other value.
C5_IsEmpty ==
    (last.fn = "is_empty" /\ Len(last.args) >= 1)
        => LET v == last.args[1]
           IN  Returned(\/ v.t = "nil"
                        \/ v.t = "string" /\ Len(v.s) = 0
                        \/ v.t = "table" /\ NoEntries(heap[v.ref]))

\* is_empty of a table whose only entry has the value false answered false
C5_Witness ==
    /\ last.fn = "is_empty"
    /\ last.args = <<LTableRef(3)>>
    /\ Returned(FALSE)

\* C6 as stated: for a string s and every number n the call accepts,
\* min_length is true iff len(s) >= n and max_length iff len(s) <= n
\* (n is h halves, so len >= n is 2 * len >= h).
C6_LengthBounds ==
    (/\ last.fn \in {"min_length", "max_length"}
     /\ Len(last.args) = 2
     /\ last.args[1].t = "string"
     /\ last.args[2].t = "number"
     /\ ~last.abort)
        => LET len == Len(last.args[1].s)
               h == last.args[2].h
           IN  IF last.fn = "min_length" THEN Returned(2 * len >= h)
               ELSE Returned(2 * len <= h)

\* C7: in_range(n, min, max) of three numbers is true exactly when n lies in
\* the closed interval from min to max, which is empty when min > max.
C7_InRange ==
    (/\ last.fn = "in_range"
     /\ Len(last.args) = 3
     /\ \A i \in 1..3 : last.args[i].t = "number")
        => Returned(last.args[1].h \in last.args[2].h .. last.args[3].h)

\* in_range(1, 0.5, 1) has answered true: the upper end is included
C7_Witness ==
    /\ last.fn = "in_range"
    /\ last.args = <<Num(2), Num(1), Num(2)>>
    /\ Returned(TRUE)

(* ======================= history independence ========================== *)

\* C8: a call repeated with the same arguments returns what it returned the
\* first time (the same values or the same abort) whatever was called in
\* between, and no call changes a table, the module's function table
\* included, or the exports registry.
C8_HistoryIndependent ==
    /\ [](  (last.fn = first.fn /\ last.args = first.args) => last = first )
    /\ [][ heap' = heap /\ exports' = exports ]_vars

\* is_empty of the non-empty table 3 was asked first, another call followed,
\* and it has been asked again
C8_Witness ==
    /\ ncalls >= 3
    /\ first.fn = "is_empty"
    /\ first.args = <<LTableRef(3)>>
    /\ last = first
    /\ last.ret = <<LBool(FALSE)>>

(* ============================ registration ============================= *)

TwelveNames ==
    {"is_string", "is_number", "is_table", "is_boolean", "is_nil", "is_empty",
     "validate_email", "validate_url", "validate_regex", "min_length",
     "max_length", "in_range"}

\* a table that maps exactly the twelve names, each to its callable
IsNamespace(tbl) ==
    /\ tbl.array = <<>>
    /\ tbl.dict = {}
    /\ {p[1] : p \in tbl.strdict} = TwelveNames
    /\ Cardinality(tbl.strdict) = 12
    /\ \A p \in tbl.strdict : p[2] = LFunction(ExportsInit[p[1]])

\* the tables that existed before the step are what they were
OldTablesKept ==
    /\ Len(heap') >= Len(heap)
    /\ \A r \in 1..Len(heap) : heap'[r] = heap[r]

\* C9: Loader builds a new table mapping exactly the twelve names to their
\* callables and pushes it as its single return value, so require yields a
\* non-nil namespace; nothing else of the host state changes.
C9_Loader ==
    /\ [](mod # LNil => mod.t = "table" /\ IsNamespace(heap[mod.ref]))
    /\ [][ nloads' # nloads =>
             /\ Len(heap') = Len(heap) + 1
             /\ stack' = Append(stack, LTableRef(Len(heap')))
             /\ IsNamespace(heap'[Len(heap')])
             /\ OldTablesKept
             /\ UNCHANGED <<loaded, mod, exports>> ]_vars
    /\ [][ (nloads' = nloads /\ heap' # heap) =>
             /\ Len(heap') = Len(heap) + 1
             /\ mod' = LTableRef(Len(heap'))
             /\ loaded' = mod'
             /\ IsNamespace(heap'[Len(heap')])
             /\ OldTablesKept
             /\ UNCHANGED <<stack, exports>> ]_vars

\* Loader has run on a host stack that already held a value, and the script
\* has required the module
C9_Witness ==
    /\ nloads = 2
    /\ Len(stack) = 2
    /\ mod # LNil
    /\ stack[2] # mod

(* ========================== concurrent calls =========================== *)

\* what the call of context c returns when it runs alone
Alone(c) ==
    CallRecord(ctx[c].fn, ctx[c].args,
        Invoke(ExportsInit[ctx[c].fn],
               [stack |-> ctx[c].args, heap |-> ctx[c].heap]))

\* C10: under every interleaving of the steps of calls made from
\* independent contexts, each call returns what the same call returns when
\* run alone, and the exports registry is never written.
C10_Independent ==
    /\ [](\A c \in Contexts : ctx[c].pc = "done" => ctx[c].rec = Alone(c))
    /\ [][exports' = exports]_vars

\* context A got its answer for the empty table while context B was in the
\* middle of enumerating a table with entries
C10_Witness ==
    /\ ctx["A"].pc = "done"
    /\ ctx["A"].fn = "is_empty"
    /\ ctx["A"].args = <<LTableRef(1)>>
    /\ ctx["A"].rec.ret = <<LBool(TRUE)>>
    /\ ctx["B"].pc = "foreach"
    /\ counts["B"] = 1
    /\ ctx["B"].todo # {}

====
